---- MODULE Spec2Model ----
(***************************************************************************)
(* Model of examples/python_client.py: class AluminatiEnergyTracker, a     *)
(* sequential HTTP client with three operations.  submit_workload builds   *)
(* a JSON payload and POSTs it inside a bounded retry loop with            *)
(* exponential backoff; get_workload and update_status issue one GET,      *)
(* respectively one PATCH.                                                 *)
(*                                                                         *)
(* Strings that the code cuts or concatenates (URLs) are sequences of      *)
(* characters/segments; floats are integers; a Python dict is a function   *)
(* from its keys; Optional[str] is a record [some, str].                   *)
(***************************************************************************)
EXTENDS Integers, Sequences, FiniteSets, TLC

VARIABLES
    api_base_url,    \* self.api_base_url (after rstrip)
    requests_new,    \* installed requests >= 2.27: json() errors are RequestException
    op,              \* the method being executed: "none", "submit", "get", "patch"
    pc,              \* position inside the method
    args,            \* arguments of the running submit_workload call
    max_retries,     \* its max_retries argument
    payload,         \* local variable payload
    attempt,         \* loop variable of `for attempt in range(max_retries)`
    exc,             \* the exception being handled in the except clause
    http,            \* outbound HTTP calls of the running call, with their responses
    trace,           \* observable effects of the running call, in order
    outcome          \* how the call ended: returned value or propagated exception

vars == <<api_base_url, requests_new, op, pc, args, max_retries, payload,
          attempt, exc, http, trace, outcome>>

----------------------------------------------------------------------------
(* Bounds *)

\* largest max_retries a caller passes (the default of the code is 3)
MaxRetries == 3

\* per-attempt timeout of the POST
PostTimeout == 30

----------------------------------------------------------------------------
(* Values *)

EmptyDict == [k \in {} |-> 0]

None == [some |-> FALSE, str |-> ""]
Str(s) == [some |-> TRUE, str |-> s]

\* the test `notes is not None` in place of truthiness
NotNone(o) == o.some

\* Python truthiness of an Optional[str]
Truthy(o) == o.some /\ o.str # ""

NotesArgs == {None, Str(""), Str("Fine-tuning LLaMA 70B")}

\* the two example requests of the script, with every choice of notes
SubmitArgs ==
    { [model_size_gb |-> b.m, num_gpus |-> b.n, gpu_type |-> b.g,
       duration_hours |-> b.d, utilization_pct |-> b.u,
       use_smart_agent |-> b.a, notes |-> nt] :
      b \in { [m |-> 70, n |-> 8, g |-> "H100", d |-> 72, u |-> 85, a |-> TRUE],
              [m |-> 13, n |-> 2, g |-> "A100", d |-> 24, u |-> 60, a |-> FALSE] },
      nt \in NotesArgs }

RetryArgs == (-1) .. MaxRetries

WorkloadIds == {"abc123", "w-2"}
StatusArgs == {"running", "completed"}

RawBaseUrls ==
    { <<"https://aluminatiai.com">>,
      <<"http://localhost:3000", "/", "/">> }

----------------------------------------------------------------------------
(* __init__ *)

RECURSIVE RStripSlash(_)
RStripSlash(s) ==
    IF s # <<>> /\ s[Len(s)] = "/"
    THEN RStripSlash(SubSeq(s, 1, Len(s) - 1))
    ELSE s

WorkloadsUrl(base) == base \o <<"/", "api", "/", "workloads">>
WorkloadUrl(base, id) == WorkloadsUrl(base) \o <<"/", id>>

----------------------------------------------------------------------------
(* The remote endpoint: what one HTTP exchange can produce *)

StubBody ==
    [id |-> "abc123", status |-> "submitted",
     estimates |-> [kwh |-> 1200, carbon_kg |-> 600, cost_usd |-> 150]]

FullBody ==
    [id |-> "abc123", status |-> "submitted",
     estimates |-> [kwh |-> 1200, carbon_kg |-> 600, cost_usd |-> 150,
                    calculation_method |-> "agent"],
     agent_insights |-> [optimizations |-> <<"o1", "o2", "o3", "o4">>],
     created_at |-> "2025-01-01T00:00:00Z"]

EmptyInsightsBody ==
    [id |-> "abc123", status |-> "submitted",
     estimates |-> [kwh |-> 1200, carbon_kg |-> 600, cost_usd |-> 150],
     agent_insights |-> EmptyDict]

NoIdBody ==
    [status |-> "submitted",
     estimates |-> [kwh |-> 1200, carbon_kg |-> 600, cost_usd |-> 150]]

NoEstimatesBody == [id |-> "abc123", status |-> "submitted"]

PartialEstimatesBody ==
    [id |-> "abc123", status |-> "submitted", estimates |-> [kwh |-> 1200]]

BadInsightsBody ==
    [id |-> "abc123", status |-> "submitted",
     estimates |-> [kwh |-> 1200, carbon_kg |-> 600, cost_usd |-> 150],
     agent_insights |-> [summary |-> "none"]]

\* bodies that carry everything the response shape of the API requires
WorkloadResults == {StubBody, FullBody, EmptyInsightsBody}

Bodies == WorkloadResults \cup
          {NoIdBody, NoEstimatesBody, PartialEstimatesBody, BadInsightsBody,
           EmptyDict}

\* the JSON body of an error response
ErrorBody == [error |-> "Not found"]

Response(e, s, p, b) == [error |-> e, status |-> s, parsable |-> p, body |-> b]

Responses ==
    { Response(e, 0, FALSE, EmptyDict) : e \in {"ConnectionError", "Timeout"} }
    \cup { Response("none", s, FALSE, EmptyDict) : s \in {200, 500} }
    \cup { Response("none", 404, TRUE, ErrorBody) }
    \cup { Response("none", 200, TRUE, b) : b \in Bodies }
    \cup { Response("none", s, TRUE, StubBody) : s \in {201, 300} }

----------------------------------------------------------------------------
(* The requests library *)

NoExc == [type |-> "none", at |-> 0]
Exc(t, a) == [type |-> t, at |-> a]

\* session.post/get/patch raise on a transport failure;
\* Response.raise_for_status raises HTTPError for 4xx and 5xx only
RequestFailure(r) ==
    IF r.error # "none" THEN r.error
    ELSE IF r.status >= 400 /\ r.status < 600 THEN "HTTPError"
    ELSE "none"

\* Response.json(): requests >= 2.27 raises requests.exceptions.JSONDecodeError
\* (a RequestException), older versions raise a plain ValueError
JsonFailure(r, new) ==
    IF r.parsable THEN "none"
    ELSE IF new THEN "JSONDecodeError" ELSE "ValueError"

\* an except clause that catches transport errors only
IsTransportErrorOnly(t) == t \in {"ConnectionError", "Timeout"}

IsRequestException(t) ==
    t \in {"ConnectionError", "Timeout", "HTTPError", "JSONDecodeError"}

----------------------------------------------------------------------------
(* submit_workload: pure parts *)

\* lines 54-64: the six fixed keys, plus notes when it is truthy
BuildPayload(a) ==
    LET base == [model_size_gb |-> a.model_size_gb,
                 num_gpus |-> a.num_gpus,
                 gpu_type |-> a.gpu_type,
                 duration_hours |-> a.duration_hours,
                 utilization_pct |-> a.utilization_pct,
                 use_smart_agent |-> a.use_smart_agent]
    IN IF Truthy(a.notes)
       THEN [k \in DOMAIN base \cup {"notes"} |->
                IF k = "notes" THEN a.notes.str ELSE base[k]]
       ELSE base

\* a request that tags retried attempts in the body
PostRequestTagged(base, p) ==
    [method |-> "POST", url |-> WorkloadsUrl(base),
     body |-> IF attempt = 0 THEN p
              ELSE [k \in DOMAIN p \cup {"retry"} |->
                       IF k = "retry" THEN attempt ELSE p[k]],
     timeout |-> PostTimeout]

\* lines 69-73: the request of one attempt
PostRequest(base, p) ==
    [method |-> "POST", url |-> WorkloadsUrl(base), body |-> p,
     timeout |-> PostTimeout]

\* lines 79-96: the exception raised while printing the result, or "none"
PrintResult(result) ==
    IF "id" \notin DOMAIN result THEN "KeyError"
    ELSE IF "estimates" \notin DOMAIN result THEN "KeyError"
    ELSE IF {"kwh", "carbon_kg", "cost_usd"} \ DOMAIN result.estimates # {}
         THEN "KeyError"
    ELSE IF "agent_insights" \in DOMAIN result
            /\ DOMAIN result.agent_insights # {}
            /\ "optimizations" \notin DOMAIN result.agent_insights
         THEN "KeyError"
    ELSE "none"

\* lines 69-98: the first exception raised in the try block, or "none"
TryFailure(r, new) ==
    IF RequestFailure(r) # "none" THEN RequestFailure(r)
    ELSE IF JsonFailure(r, new) # "none" THEN JsonFailure(r, new)
    ELSE PrintResult(r.body)

\* linear instead of exponential backoff
WaitTimeLinear(a) == 2 * a

\* line 104
WaitTime(a) == 2 ^ a

\* a retry test that also holds on the final attempt
WillRetryAlways(a, mr) == a < mr

\* line 103: a further attempt follows
WillRetry(a, mr) == a < mr - 1

\* a loop that runs once more than range(max_retries)
RangeHasNextInclusive(a, mr) == a <= mr

\* line 67: range(max_retries) has a value for this iteration
RangeHasNext(a, mr) == a < mr

\* line 109: a bare raise re-raises the exception being handled
Reraised(e) == e

----------------------------------------------------------------------------
(* State *)

NoOutcome == [kind |-> "none", value |-> EmptyDict, exc |-> NoExc]
Returned(v) == [kind |-> "return", value |-> v, exc |-> NoExc]
Raised(e) == [kind |-> "raise", value |-> EmptyDict, exc |-> e]

Event(e, n) == [ev |-> e, n |-> n]

Ready == {"idle", "returned", "raised"}

Init ==
    /\ api_base_url \in {RStripSlash(u) : u \in RawBaseUrls}
    /\ requests_new \in BOOLEAN
    /\ op = "none"
    /\ pc = "idle"
    /\ args = CHOOSE a \in SubmitArgs : TRUE
    /\ max_retries = 0
    /\ payload = EmptyDict
    /\ attempt = 0
    /\ exc = NoExc
    /\ http = <<>>
    /\ trace = <<>>
    /\ outcome = NoOutcome

----------------------------------------------------------------------------
(* submit_workload *)

\* lines 24-64: the call is entered and payload is built
SubmitWorkload ==
    /\ pc \in Ready
    /\ \E a \in SubmitArgs, mr \in RetryArgs :
          /\ args' = a
          /\ max_retries' = mr
          /\ payload' = BuildPayload(a)
    /\ op' = "submit"
    /\ pc' = "for"
    /\ attempt' = 0
    /\ exc' = NoExc
    /\ http' = <<>>
    /\ trace' = <<>>
    /\ outcome' = NoOutcome
    /\ UNCHANGED <<api_base_url, requests_new>>

\* line 67: range(max_retries) yields the next attempt
ForLoop ==
    /\ pc = "for"
    /\ RangeHasNext(attempt, max_retries)
    /\ pc' = "try"
    /\ UNCHANGED <<api_base_url, requests_new, op, args, max_retries, payload,
                   attempt, exc, http, trace, outcome>>

\* lines 67, 111: range(max_retries) is exhausted, the method returns {}
ReturnEmpty ==
    /\ pc = "for"
    /\ ~RangeHasNext(attempt, max_retries)
    /\ pc' = "returned"
    /\ outcome' = Returned(EmptyDict)
    /\ UNCHANGED <<api_base_url, requests_new, op, args, max_retries, payload,
                   attempt, exc, http, trace>>

\* lines 68-100: one attempt: POST, raise_for_status, json, print, return
TryBody ==
    /\ pc = "try"
    /\ \E r \in Responses :
          LET t == TryFailure(r, requests_new)
              sent == Append(http, [req |-> PostRequest(api_base_url, payload),
                                    resp |-> r])
              posted == Append(trace, Event("post", attempt))
              printed == IF RequestFailure(r) = "none"
                            /\ JsonFailure(r, requests_new) = "none"
                         THEN Append(posted, Event("success", attempt))
                         ELSE posted
          IN /\ http' = sent
             /\ trace' = printed
             /\ IF t = "none"
                THEN /\ pc' = "returned"
                     /\ outcome' = Returned(r.body)
                     /\ exc' = exc
                ELSE IF IsRequestException(t)
                THEN /\ pc' = "except"
                     /\ exc' = Exc(t, attempt)
                     /\ outcome' = outcome
                ELSE /\ pc' = "raised"
                     /\ outcome' = Raised(Exc(t, attempt))
                     /\ exc' = exc
    /\ UNCHANGED <<api_base_url, requests_new, op, args, max_retries, payload,
                   attempt>>

\* the report is printed only when a retry follows
ExceptNoFinalReport ==
    /\ pc = "except"
    /\ trace' = IF WillRetry(attempt, max_retries)
                THEN Append(trace, Event("report", attempt + 1))
                ELSE trace
    /\ pc' = IF WillRetry(attempt, max_retries) THEN "backoff" ELSE "reraise"
    /\ UNCHANGED <<api_base_url, requests_new, op, args, max_retries, payload,
                   attempt, exc, http, outcome>>

\* lines 101, 103: the failed attempt is reported, then the branch is chosen
ExceptReport ==
    /\ pc = "except"
    /\ trace' = Append(trace, Event("report", attempt + 1))
    /\ pc' = IF WillRetry(attempt, max_retries) THEN "backoff" ELSE "reraise"
    /\ UNCHANGED <<api_base_url, requests_new, op, args, max_retries, payload,
                   attempt, exc, http, outcome>>

\* lines 104-106, 67: sleep 2**attempt seconds, then the next iteration
Backoff ==
    /\ pc = "backoff"
    /\ trace' = Append(trace, Event("sleep", WaitTime(attempt)))
    /\ attempt' = attempt + 1
    /\ exc' = NoExc
    /\ pc' = "for"
    /\ UNCHANGED <<api_base_url, requests_new, op, args, max_retries, payload,
                   http, outcome>>

\* lines 108-109: the handled exception is re-raised to the caller
Reraise ==
    /\ pc = "reraise"
    /\ trace' = Append(trace, Event("all_failed", attempt + 1))
    /\ outcome' = Raised(Reraised(exc))
    /\ pc' = "raised"
    /\ UNCHANGED <<api_base_url, requests_new, op, args, max_retries, payload,
                   attempt, exc, http>>

----------------------------------------------------------------------------
(* get_workload and update_status *)

\* raise_for_status left out
SimpleFailureNoStatusCheck(r, new) ==
    IF r.error # "none" THEN r.error ELSE JsonFailure(r, new)

\* lines 123-127 and 140-145 after the request: raise_for_status, then json
SimpleFailure(r, new) ==
    IF RequestFailure(r) # "none" THEN RequestFailure(r)
    ELSE JsonFailure(r, new)

SimpleOutcome(r, new) ==
    IF SimpleFailure(r, new) = "none"
    THEN Returned(r.body)
    ELSE Raised(Exc(SimpleFailure(r, new), 0))

GetRequest(base, id) ==
    [method |-> "GET", url |-> WorkloadUrl(base, id)]

PatchRequest(base, id, st) ==
    [method |-> "PATCH", url |-> WorkloadUrl(base, id),
     body |-> [status |-> st]]

\* lines 113-127
GetWorkload ==
    /\ pc \in Ready
    /\ \E id \in WorkloadIds, r \in Responses :
          /\ http' = <<[req |-> GetRequest(api_base_url, id), resp |-> r]>>
          /\ outcome' = SimpleOutcome(r, requests_new)
          /\ pc' = IF SimpleFailure(r, requests_new) = "none"
                   THEN "returned" ELSE "raised"
    /\ op' = "get"
    /\ trace' = <<>>
    /\ UNCHANGED <<api_base_url, requests_new, args, max_retries, payload,
                   attempt, exc>>

\* lines 129-145
UpdateStatus ==
    /\ pc \in Ready
    /\ \E id \in WorkloadIds, st \in StatusArgs, r \in Responses :
          /\ http' = <<[req |-> PatchRequest(api_base_url, id, st), resp |-> r]>>
          /\ outcome' = SimpleOutcome(r, requests_new)
          /\ pc' = IF SimpleFailure(r, requests_new) = "none"
                   THEN "returned" ELSE "raised"
    /\ op' = "patch"
    /\ trace' = <<>>
    /\ UNCHANGED <<api_base_url, requests_new, args, max_retries, payload,
                   attempt, exc>>

----------------------------------------------------------------------------

\* the steps inside a running submit_workload call
SubmitStep == ForLoop \/ ReturnEmpty \/ TryBody \/ ExceptReport \/ Backoff \/ Reraise

Next ==
    \/ SubmitWorkload
    \/ ForLoop
    \/ ReturnEmpty
    \/ TryBody
    \/ ExceptReport
    \/ Backoff
    \/ Reraise
    \/ GetWorkload
    \/ UpdateStatus

Spec == Init /\ [][Next]_vars

\* a running call keeps executing: the POST is bounded by its timeout and
\* time.sleep returns
FairSpec == Spec /\ WF_vars(SubmitStep)

----------------------------------------------------------------------------
(* Vocabulary of the properties *)

Finished == pc \in {"returned", "raised"}

Is2xx(st) == st >= 200 /\ st < 300

Max(a, b) == IF a >= b THEN a ELSE b

RECURSIVE SeqSum(_)
SeqSum(q) == IF q = <<>> THEN 0 ELSE q[1] + SeqSum(Tail(q))

IsSleep(e) == e.ev = "sleep"
IsReport(e) == e.ev = "report"
IsPostOrSleep(e) == e.ev \in {"post", "sleep"}

\* durations of the time.sleep calls of the running call, in order
Sleeps == [i \in 1 .. Len(SelectSeq(trace, IsSleep)) |-> SelectSeq(trace, IsSleep)[i].n]

Reports == SelectSeq(trace, IsReport)

\* the POSTs and sleeps of the running call, in order
Timeline == SelectSeq(trace, IsPostOrSleep)

\* a transport error, or an error status (4xx, 5xx)
EndpointFails(r) == r.error # "none" \/ (r.status >= 400 /\ r.status < 600)

\* a transport error, or any status outside 2xx
NotA2xx(r) == r.error # "none" \/ ~Is2xx(r.status)

\* a 2xx response whose body parses as JSON
ParsableSuccess(r) == r.error = "none" /\ Is2xx(r.status) /\ r.parsable

\* a 2xx response carrying a WorkloadResult
EndpointSucceeds(r) == ParsableSuccess(r) /\ r.body \in WorkloadResults

\* the first k POSTs of the running call failed
FailPrefix(k) == k <= Len(http) /\ \A i \in 1 .. k : EndpointFails(http[i].resp)

\* the attempt landed in the except clause of the retry loop
CaughtAttempt(r) ==
    \/ EndpointFails(r)
    \/ (requests_new /\ ~r.parsable)

HasWorkloadShape(v) == "id" \in DOMAIN v /\ "estimates" \in DOMAIN v

SixKeys == {"model_size_gb", "num_gpus", "gpu_type", "duration_hours",
            "utilization_pct", "use_smart_agent"}

----------------------------------------------------------------------------
(* Properties *)

\* C1: a submit_workload call that returns, returns a valid WorkloadResult
\* taken from a response that was received and parsed on its last attempt;
\* it never returns a default (empty) result without such a response.
C1_ResultOrFailure ==
    (op = "submit" /\ pc = "returned") =>
        /\ outcome.kind = "return"
        /\ HasWorkloadShape(outcome.value)
        /\ http # <<>>
        /\ http[Len(http)].resp.error = "none"
        /\ http[Len(http)].resp.parsable
        /\ outcome.value = http[Len(http)].resp.body

\* C2: when every POST of a finished submit_workload call (max_retries >= 1)
\* failed with a transport error or an error status, exactly max_retries
\* POSTs were made and the exception of the last attempt is propagated.
C2_AllFailPropagatesLast ==
    (/\ op = "submit"
     /\ Finished
     /\ max_retries >= 1
     /\ FailPrefix(Len(http))) =>
        /\ Len(http) = max_retries
        /\ outcome.kind = "raise"
        /\ outcome.exc.at = max_retries - 1
        /\ outcome.exc.type =
              (IF http[max_retries].resp.error # "none"
               THEN http[max_retries].resp.error ELSE "HTTPError")

C2_Witness ==
    /\ op = "submit"
    /\ pc = "raised"
    /\ max_retries = 3
    /\ Len(http) = 3
    /\ http[1].resp.error = "ConnectionError"
    /\ http[2].resp.error = "Timeout"
    /\ http[3].resp.status = 500
    /\ outcome.exc = Exc("HTTPError", 2)

\* C3: when the first k POSTs fail and POST k+1 succeeds with a WorkloadResult,
\* the call has returned that body after exactly k+1 POSTs and k sleeps of
\* 2^0 .. 2^(k-1) seconds, POSTs and sleeps alternating; and while only
\* failures were seen and fewer than max_retries POSTs were made, the call
\* goes on.
C3_FailKThenSucceed ==
    op = "submit" =>
        /\ \A k \in 0 .. Len(http) :
              (/\ FailPrefix(k)
               /\ Len(http) >= k + 1
               /\ EndpointSucceeds(http[k + 1].resp)) =>
                  /\ k < max_retries
                  /\ pc = "returned"
                  /\ outcome = Returned(http[k + 1].resp.body)
                  /\ Len(http) = k + 1
                  /\ Len(Sleeps) = k
                  /\ \A i \in 1 .. k : Sleeps[i] = 2 ^ (i - 1)
                  /\ Len(Timeline) = 2 * k + 1
                  /\ \A j \in 1 .. 2 * k + 1 :
                        Timeline[j].ev = (IF j % 2 = 1 THEN "post" ELSE "sleep")
        /\ (FailPrefix(Len(http)) /\ Len(http) < max_retries) => ~Finished

C3_Witness ==
    /\ op = "submit"
    /\ pc = "returned"
    /\ max_retries = 3
    /\ Len(http) = 3
    /\ FailPrefix(2)
    /\ EndpointSucceeds(http[3].resp)
    /\ outcome.value = FullBody

\* C4: whenever the latest POST of submit_workload got a 2xx response with a
\* parsable JSON body, the call has returned exactly that body.
C4_ParsableBodyReturned ==
    (/\ op = "submit"
     /\ http # <<>>
     /\ ParsableSuccess(http[Len(http)].resp)) =>
        /\ pc = "returned"
        /\ outcome = Returned(http[Len(http)].resp.body)

C6_BackoffSchedule ==
    op = "submit" =>
        /\ \A i \in 1 .. Len(Sleeps) :
              /\ Sleeps[i] = 2 ^ (i - 1)
              /\ i - 1 < max_retries - 1
        /\ Len(Sleeps) = attempt
        /\ (pc = "raised" /\ outcome.exc.at = max_retries - 1
              /\ Len(http) = max_retries) =>
              /\ trace[Len(trace)].ev # "sleep"
              /\ SeqSum(Sleeps) = 2 ^ (max_retries - 1) - 1

C6_Witness ==
    /\ op = "submit"
    /\ pc = "raised"
    /\ max_retries = 3
    /\ FailPrefix(3)
    /\ Sleeps = <<1, 2>>

\* C7: every body sent by submit_workload has the six fixed keys with the
\* caller's values, and has a notes key, holding the notes, exactly when the
\* notes argument is a non-empty string.
C7_NotesOnlyIfNonEmpty ==
    op = "submit" =>
        \A i \in 1 .. Len(http) :
            LET body == http[i].req.body
                given == args.notes.some /\ args.notes.str # ""
            IN /\ ("notes" \in DOMAIN body) <=> given
               /\ given => body["notes"] = args.notes.str
               /\ DOMAIN body \ {"notes"} = SixKeys
               /\ body["model_size_gb"] = args.model_size_gb
               /\ body["num_gpus"] = args.num_gpus
               /\ body["gpu_type"] = args.gpu_type
               /\ body["duration_hours"] = args.duration_hours
               /\ body["utilization_pct"] = args.utilization_pct
               /\ body["use_smart_agent"] = args.use_smart_agent

C7_Witness ==
    /\ op = "submit"
    /\ Len(http) >= 1
    /\ args.notes = Str("")
    /\ DOMAIN http[1].req.body = SixKeys

\* C8: in submit_workload the report "attempt a+1 of max_retries" of a caught
\* attempt is the first effect after its POST: it precedes the sleep, the
\* next POST and the re-raise, so the re-raise after n caught attempts is
\* preceded by exactly n reports.
C8_ReportBeforeAnythingElse ==
    op = "submit" =>
        /\ \A j \in 1 .. Len(trace) :
              /\ (trace[j].ev = "post" /\ CaughtAttempt(http[trace[j].n + 1].resp)) =>
                    IF j = Len(trace)
                    THEN pc = "except"
                    ELSE trace[j + 1] = Event("report", trace[j].n + 1)
              /\ trace[j].ev \in {"sleep", "all_failed"} =>
                    (j > 1 /\ trace[j - 1].ev = "report")
        /\ pc \in {"backoff", "reraise"} => Len(Reports) = attempt + 1
        /\ (pc = "raised" /\ CaughtAttempt(http[Len(http)].resp)) =>
              /\ Len(Reports) = Len(http)
              /\ \A i \in 1 .. Len(http) : CaughtAttempt(http[i].resp)
              /\ \A i \in 1 .. Len(Reports) : Reports[i].n = i

C8_Witness ==
    /\ op = "submit"
    /\ pc = "raised"
    /\ max_retries = 2
    /\ Len(http) = 2
    /\ Len(Reports) = 2
    /\ trace[Len(trace)].ev = "all_failed"

\* C9: a submit_workload call makes at most max_retries POSTs (none when
\* max_retries <= 0), get_workload and update_status make one call, and
\* every call that has started finishes.
C9_BoundedRetry ==
    /\ [](op = "submit" => Len(http) <= Max(max_retries, 0))
    /\ [](op \in {"get", "patch"} => Len(http) = 1)
    /\ (pc \notin Ready) ~> Finished

C9_Witness ==
    /\ op = "submit"
    /\ Finished
    /\ max_retries = 3
    /\ Len(http) = 3

\* C10: every POST of one submit_workload call carries the same request: the
\* payload built on entry, sent to api_base_url + /api/workloads; the payload
\* is not changed while the call runs and api_base_url is never changed.
C10_SameRequestEveryAttempt ==
    /\ [](op = "submit" =>
            \A i \in 1 .. Len(http) :
                /\ http[i].req.method = "POST"
                /\ http[i].req.url = api_base_url \o <<"/", "api", "/", "workloads">>
                /\ http[i].req.body = payload
                /\ http[i].req = http[1].req)
    /\ [][/\ api_base_url' = api_base_url
          /\ (pc \notin Ready => payload' = payload)]_vars

C10_Witness ==
    /\ op = "submit"
    /\ Len(http) = 3
    /\ api_base_url = <<"http://localhost:3000">>
    /\ http[3].req.url = <<"http://localhost:3000", "/", "api", "/", "workloads">>

====
